---- MODULE Spec2Model ----
(***************************************************************************)
(* Episode construction of AnimeSort (src/src/episode.rs): filename        *)
(* cleaning, name / season / episode / extension extraction and movie      *)
(* classification, modelled at character level.                            *)
(*                                                                         *)
(* A string is a sequence of characters; a character is a one-character    *)
(* TLA+ string.  The character written "U+0663" stands for ARABIC-INDIC     *)
(* DIGIT THREE: char::is_numeric accepts it, the regex class \d matches it, *)
(* and str::parse::<u32> rejects it.                                        *)
(***************************************************************************)
EXTENDS Integers, Sequences, FiniteSets, TLC

\* ------------------------------------------------------------------------
\* Characters
\* ------------------------------------------------------------------------

AsciiDigits == {"0", "1", "2", "3", "4", "5", "6", "7", "8", "9"}

\* Decimal digits outside ASCII (Unicode category Nd).
OtherDigits == {"U+0663"}

AsciiLetters ==
    {"a", "b", "c", "d", "e", "f", "g", "h", "i", "j", "k", "l", "m",
     "n", "o", "p", "q", "r", "s", "t", "u", "v", "w", "x", "y", "z",
     "A", "B", "C", "D", "E", "F", "G", "H", "I", "J", "K", "L", "M",
     "N", "O", "P", "Q", "R", "S", "T", "U", "V", "W", "X", "Y", "Z"}

\* char::is_whitespace, restricted to the characters a file name can hold here.
WhiteSpace == {" ", "\t", "\n", "\r"}

is_whitespace(c) == c \in WhiteSpace

\* char::is_numeric on the characters of the model.
is_numeric(c) == c \in AsciiDigits \cup OtherDigits

\* The regex class \d (Unicode aware: every decimal digit).
ReDigit(c) == c \in AsciiDigits \cup OtherDigits

\* The regex class \w, which decides the word boundary \b.
ReWord(c) == c \in AsciiLetters \cup AsciiDigits \cup OtherDigits \cup {"_"}

\* The regex atom `.` : any character but a line feed.
ReDot(c) == c # "\n"

\* ------------------------------------------------------------------------
\* String helpers (std::str)
\* ------------------------------------------------------------------------

Drop(s, n) == SubSeq(s, n + 1, Len(s))

Take(s, n) == SubSeq(s, 1, n)

\* s[i..] starts with pat
StartsWithAt(s, i, pat) ==
    /\ i + Len(pat) - 1 <= Len(s)
    /\ \A k \in 1..Len(pat) : s[i + k - 1] = pat[k]

\* str::contains
Contains(s, pat) ==
    \/ pat = <<>>
    \/ \E i \in 1..Len(s) : s[i] = pat[1] /\ StartsWithAt(s, i, pat)

\* str::replace(&[chars][..], " ") : every listed character becomes one space
ReplaceChars(s, chars) ==
    [i \in 1..Len(s) |-> IF s[i] \in chars THEN " " ELSE s[i]]

\* str::replace(pat, "") : leftmost non-overlapping occurrences are removed
RECURSIVE RemoveAll(_, _)
RemoveAll(s, pat) ==
    IF s = <<>> THEN <<>>
    ELSE IF StartsWithAt(s, 1, pat) THEN RemoveAll(Drop(s, Len(pat)), pat)
    ELSE <<s[1]>> \o RemoveAll(Drop(s, 1), pat)

\* Regex::new(r"<open>.*?<close>").replace_all(s, "") : from the leftmost
\* opener, the shortest run of non-line-feed characters up to a closer.
CloserAfter(s, close) ==
    LET cands == {j \in 2..Len(s) :
                    /\ s[j] = close
                    /\ \A k \in 2..(j - 1) : ReDot(s[k])}
    IN  IF cands = {} THEN 0
        ELSE CHOOSE j \in cands : \A k \in cands : j <= k

RECURSIVE RemoveDelimited(_, _, _)
RemoveDelimited(s, open, close) ==
    IF s = <<>> THEN <<>>
    ELSE LET j == IF s[1] = open THEN CloserAfter(s, close) ELSE 0
         IN  IF j # 0 THEN RemoveDelimited(Drop(s, j), open, close)
             ELSE <<s[1]>> \o RemoveDelimited(Drop(s, 1), open, close)

\* str::trim
RECURSIVE TrimStart(_)
TrimStart(s) ==
    IF s # <<>> /\ is_whitespace(s[1]) THEN TrimStart(Drop(s, 1)) ELSE s

RECURSIVE TrimEnd(_)
TrimEnd(s) ==
    IF s # <<>> /\ is_whitespace(s[Len(s)]) THEN TrimEnd(Take(s, Len(s) - 1))
    ELSE s

Trim(s) == TrimEnd(TrimStart(s))

\* str::split_whitespace : the maximal runs of non-whitespace characters
RECURSIVE TokenEnd(_, _)
TokenEnd(s, i) ==
    IF i < Len(s) /\ ~is_whitespace(s[i + 1]) THEN TokenEnd(s, i + 1) ELSE i

RECURSIVE split_whitespace(_)
split_whitespace(s) ==
    IF s = <<>> THEN <<>>
    ELSE IF is_whitespace(s[1]) THEN split_whitespace(Drop(s, 1))
    ELSE <<Take(s, TokenEnd(s, 1))>>
            \o split_whitespace(Drop(s, TokenEnd(s, 1)))

\* [&str]::join(" ")
RECURSIVE Join(_)
Join(toks) ==
    IF toks = <<>> THEN <<>>
    ELSE IF Len(toks) = 1 THEN toks[1]
    ELSE toks[1] \o <<" ">> \o Join(Drop(toks, 1))

\* ------------------------------------------------------------------------
\* Episode::clean_filename
\* ------------------------------------------------------------------------

SeparatorChars == {".", "_", "-", "+"}

unwanted_pattern ==
    <<
       <<"w","w","w">>, <<"c","o","m">>, <<"o","r","g">>,
       <<"i","n","f","o">>, <<"m","k","v">>, <<"m","p","4">>,
       <<"a","v","i">>, <<"w","m","v">>, <<"f","l","v">>,
       <<"m","o","v">>, <<"w","e","b","m">>, <<"7","2","0","p">>,
       <<"1","0","8","0","p">>, <<"x","2","6","4">>, <<"x","2","6","5">>,
       <<"H","E","V","C">>, <<"M","U","L","T","I">>, <<"A","A","C">>,
       <<"H","D">>, <<"F","R","E","N","C","H">>, <<"V","O","S","T","F","R">>,
       <<"V","O","S","T","A">>, <<"V","F">>, <<"V","O">>,
       <<"D","L">>, <<"W","E","B","R","i","p">>, <<"W","E","B","-","D","L">>,
       <<"W","E","B">>, <<"W","E","B","R","I","P">>, <<"R","i","p">>,
       <<"R","I","P">>, <<"B","l","u","R","a","y">>,
       <<"B","l","u","-","R","a","y">>, <<"B","l","u","-","r","a","y">>,
       <<"W","E","B">>, <<"F","i","l","m">>, <<"M","o","v","i","e">>,
       <<"T","s","u","n","d","e","r","e","R","a","w","s">>,
       <<"T","s","u","n","d","e","r","e">>, <<"R","a","w","s">>,
       <<"w","s">>, <<"t","v">>, <<"T","V">>,
       <<"v","o","s","t","f","r","e","e">>, <<"b","o","a","t","s">>,
       <<"u","n","o">>, <<"W","a","w","a","c","i","t","y">>,
       <<"w","a","w","a","c","i","t","y">>, <<"H","2","6","4">>,
       <<"N","a","n","D","e","s","u","K","a">>, <<"F","A","N","S","U","B">>
    >>

\* for pattern in unwanted_pattern { cleaned = cleaned.replace(pattern, "") }
RECURSIVE RemoveUnwanted(_, _)
RemoveUnwanted(s, k) ==
    IF k > Len(unwanted_pattern) THEN s
    ELSE IF Contains(s, unwanted_pattern[k])
         THEN RemoveUnwanted(RemoveAll(s, unwanted_pattern[k]), k + 1)
         ELSE RemoveUnwanted(s, k + 1)

\* Line 76 builds the whitespace-collapsed string and drops it: the
\* statement has no effect on `cleaned`, which line 78 only trims.
clean_filename(filename_to_clean) ==
    LET replaced   == ReplaceChars(filename_to_clean, SeparatorChars)
        nobracket  == RemoveDelimited(replaced, "[", "]")
        noparen    == RemoveDelimited(nobracket, "(", ")")
        denylisted == RemoveUnwanted(noparen, 1)
        discarded  == Join(split_whitespace(denylisted))
    IN  Trim(denylisted)

\* ------------------------------------------------------------------------
\* u32 and str::parse::<u32>
\* ------------------------------------------------------------------------

\* A u32 is the pair <<high 16 bits, low 16 bits>>.
Limb == 65536

U32(n) == <<n \div Limb, n % Limb>>

DigitValue(c) ==
    CASE c = "0" -> 0 [] c = "1" -> 1 [] c = "2" -> 2 [] c = "3" -> 3
      [] c = "4" -> 4 [] c = "5" -> 5 [] c = "6" -> 6 [] c = "7" -> 7
      [] c = "8" -> 8 [] c = "9" -> 9

\* result = result.checked_mul(10)?.checked_add(digit)? over the characters;
\* a character that is no ASCII digit, or a value above u32::MAX, is an Err.
RECURSIVE ParseFrom(_, _)
ParseFrom(ds, acc) ==
    IF ds = <<>> THEN [ok |-> TRUE, val |-> acc]
    ELSE IF ds[1] \notin AsciiDigits THEN [ok |-> FALSE, val |-> acc]
    ELSE LET lo == acc[2] * 10 + DigitValue(ds[1])
             hi == acc[1] * 10 + (lo \div Limb)
         IN  IF hi >= Limb THEN [ok |-> FALSE, val |-> acc]
             ELSE ParseFrom(Drop(ds, 1), <<hi, lo % Limb>>)

parse_u32(ds) ==
    IF ds = <<>> THEN [ok |-> FALSE, val |-> U32(0)] ELSE ParseFrom(ds, U32(0))

\* .parse::<u32>().unwrap_or(0)
parse_or_0(ds) == LET r == parse_u32(ds) IN IF r.ok THEN r.val ELSE U32(0)

\* .parse::<u32>().unwrap_or(1)
parse_or_1(ds) == LET r == parse_u32(ds) IN IF r.ok THEN r.val ELSE U32(1)

\* ------------------------------------------------------------------------
\* Tier 1: the token scan shared by the three extractors
\* ------------------------------------------------------------------------

\* tok.starts_with(letter) && tok.len() > 1 && tok.chars().skip(1).all(is_numeric)
IsMarker(tok, letter) ==
    /\ Len(tok) > 1
    /\ tok[1] = letter
    /\ \A k \in 2..Len(tok) : is_numeric(tok[k])

\* for i in 0..toks.len() { if <toks[i] is a marker of one of the letters> }:
\* the index of the first such token, 0 when the loop finds none
FirstMarker(toks, letters) ==
    LET hits == {i \in 1..Len(toks) : \E l \in letters : IsMarker(toks[i], l)}
    IN  IF hits = {} THEN 0 ELSE CHOOSE i \in hits : \A j \in hits : i <= j

\* ------------------------------------------------------------------------
\* Regex pieces
\* ------------------------------------------------------------------------

CharAt(s, i) == IF i \in 1..Len(s) THEN s[i] ELSE ""

DigitAt(s, i) == i \in 1..Len(s) /\ ReDigit(s[i])

\* length of the greedy match of \d{1,max} at i (0: no match)
RECURSIVE DigitRun(_, _, _)
DigitRun(s, i, max) ==
    IF max > 0 /\ DigitAt(s, i) THEN 1 + DigitRun(s, i + 1, max - 1) ELSE 0

\* S\d{1,2}E\d{1,2} at q; n is the number of digits the season part takes
SxxEyyWith(s, q, n) ==
    /\ CharAt(s, q) = "S"
    /\ \A k \in 1..n : DigitAt(s, q + k)
    /\ CharAt(s, q + n + 1) = "E"
    /\ DigitAt(s, q + n + 2)

SxxEyyAt(s, q) == SxxEyyWith(s, q, 2) \/ SxxEyyWith(s, q, 1)

\* S\d{1,2}
SxxAt(s, q) == CharAt(s, q) = "S" /\ DigitAt(s, q + 1)

\* S\d{1,2} \d{1,2}
SxxSpaceAt(s, q) ==
    /\ CharAt(s, q) = "S"
    /\ \E n \in 1..2 :
          /\ \A k \in 1..n : DigitAt(s, q + k)
          /\ CharAt(s, q + n + 1) = " "
          /\ DigitAt(s, q + n + 2)

\* E\d{1,2}
ExxAt(s, q) == CharAt(s, q) = "E" /\ DigitAt(s, q + 1)

\* \b : exactly one side of the gap before position i is a word character
WordBoundary(s, i) == ReWord(CharAt(s, i - 1)) # ReWord(CharAt(s, i))

\* \b\d{1,3}\b at q taking n digits
NumberWith(s, q, n) ==
    /\ WordBoundary(s, q)
    /\ \A k \in 0..(n - 1) : DigitAt(s, q + k)
    /\ WordBoundary(s, q + n)

NumberAt(s, q) == \E n \in 1..3 : NumberWith(s, q, n)

\* the second group of name_patterns[k], for k in 1..5, matches at q
Group2At(s, q, k) ==
    CASE k = 1 -> SxxEyyAt(s, q) \/ SxxAt(s, q)
      [] k = 2 -> SxxSpaceAt(s, q)
      [] k = 3 -> ExxAt(s, q)
      [] k = 4 -> DigitAt(s, q)
      [] k = 5 -> \/ StartsWithAt(s, q, <<"F", "i", "l", "m">>)
                  \/ StartsWithAt(s, q, <<"M", "o", "v", "i", "e">>)

Min(S) == CHOOSE x \in S : \A y \in S : x <= y

\* Regex (.+?)(<group 2 of pattern k>).captures(s) : the leftmost start p,
\* then the shortest non-empty run of `.` after which group 2 matches.
\* No match: ok is FALSE.
LazyCapture(s, k) ==
    LET Ends(p) == {q \in (p + 1)..Len(s) :
                       /\ \A i \in p..(q - 1) : ReDot(s[i])
                       /\ Group2At(s, q, k)}
        starts  == {p \in 1..Len(s) : Ends(p) # {}}
    IN  IF starts = {} THEN [ok |-> FALSE, group1 |-> <<>>]
        ELSE [ok |-> TRUE,
              group1 |-> SubSeq(s, Min(starts), Min(Ends(Min(starts))) - 1)]

\* Regex (.+).captures(s) : the leftmost `.` character and the longest run
RECURSIVE DotRun(_, _)
DotRun(s, i) == IF i <= Len(s) /\ ReDot(s[i]) THEN 1 + DotRun(s, i + 1) ELSE 0

GreedyCapture(s) ==
    LET starts == {p \in 1..Len(s) : ReDot(s[p])}
    IN  IF starts = {} THEN [ok |-> FALSE, group1 |-> <<>>]
        ELSE [ok |-> TRUE,
              group1 |-> SubSeq(s, Min(starts),
                                Min(starts) + DotRun(s, Min(starts)) - 1)]

\* name_patterns[k].captures(s)
NamePattern(s, k) == IF k = 6 THEN GreedyCapture(s) ELSE LazyCapture(s, k)

NumNamePatterns == 6

\* ------------------------------------------------------------------------
\* Episode::extract_series_name
\* ------------------------------------------------------------------------

\* the loop over name_patterns stopping one pattern short
RECURSIVE FirstNamePattern_one_short(_, _)
FirstNamePattern_one_short(s, k) ==
    IF k >= NumNamePatterns THEN [ok |-> FALSE, val |-> <<>>, tier |-> 2]
    ELSE LET captures == NamePattern(s, k)
         IN  IF captures.ok
             THEN [ok |-> TRUE, val |-> Trim(captures.group1), tier |-> 2]
             ELSE FirstNamePattern_one_short(s, k + 1)

\* for pattern in name_patterns { if let Some(captures) ... return Ok(..) }
RECURSIVE FirstNamePattern(_, _)
FirstNamePattern(s, k) ==
    IF k > NumNamePatterns THEN [ok |-> FALSE, val |-> <<>>, tier |-> 2]
    ELSE LET captures == NamePattern(s, k)
         IN  IF captures.ok
             THEN [ok |-> TRUE, val |-> Trim(captures.group1), tier |-> 2]
             ELSE FirstNamePattern(s, k + 1)

\* extract_series_name whose token scan stops at season markers only
extract_series_name_season_only(self) ==
    LET name == split_whitespace(self.filename_clean)
        i    == FirstMarker(name, {"S"})
    IN  IF i # 0
        THEN [ok |-> TRUE, val |-> Trim(Join(Take(name, i - 1))), tier |-> 1]
        ELSE FirstNamePattern(self.filename_clean, 1)

\* ok = FALSE is bail!("Name not found"); tier records which path answered.
extract_series_name(self) ==
    LET name == split_whitespace(self.filename_clean)
        i    == FirstMarker(name, {"S", "E"})
    IN  IF i # 0
        THEN [ok |-> TRUE, val |-> Trim(Join(Take(name, i - 1))), tier |-> 1]
        ELSE FirstNamePattern(self.filename_clean, 1)

\* ------------------------------------------------------------------------
\* Episode::extract_season
\* ------------------------------------------------------------------------

\* Regex S(\d{1,2})(?:E\d{1,2})? : leftmost S followed by a digit; group 1
\* is the greedy run of at most two digits.
SeasonCapture(s) ==
    LET starts == {p \in 1..Len(s) : SxxAt(s, p)}
    IN  IF starts = {} THEN [ok |-> FALSE, group1 |-> <<>>]
        ELSE [ok |-> TRUE,
              group1 |-> SubSeq(s, Min(starts) + 1,
                                Min(starts) + DigitRun(s, Min(starts) + 1, 2))]

extract_season(self) ==
    LET season == split_whitespace(self.filename_clean)
        i      == FirstMarker(season, {"S"})
    IN  IF i # 0 THEN parse_or_1(Drop(season[i], 1))
        ELSE LET captures == SeasonCapture(self.filename_clean)
             IN  IF captures.ok THEN parse_or_1(captures.group1) ELSE U32(0)

\* ------------------------------------------------------------------------
\* Episode::extract_episode
\* ------------------------------------------------------------------------

\* Regex (?:S\d{1,2}E(\d{1,2}))|(?:E(\d{1,2}))|(?:\b(\d{1,3})\b) : the match
\* is the leftmost position where one alternative matches; at that position
\* the alternatives are tried in the order written.
EpisodeMatchAt(s, p) == SxxEyyAt(s, p) \/ ExxAt(s, p) \/ NumberAt(s, p)

EpisodeGroupAt(s, p) ==
    IF SxxEyyWith(s, p, 2) THEN SubSeq(s, p + 4, p + 3 + DigitRun(s, p + 4, 2))
    ELSE IF SxxEyyWith(s, p, 1)
         THEN SubSeq(s, p + 3, p + 2 + DigitRun(s, p + 3, 2))
    ELSE IF ExxAt(s, p) THEN SubSeq(s, p + 1, p + DigitRun(s, p + 1, 2))
    ELSE SubSeq(s, p, p + DigitRun(s, p, 3) - 1)

EpisodeCapture(s) ==
    LET starts == {p \in 1..Len(s) : EpisodeMatchAt(s, p)}
    IN  IF starts = {} THEN [ok |-> FALSE, group |-> <<>>]
        ELSE [ok |-> TRUE, group |-> EpisodeGroupAt(s, Min(starts))]

extract_episode(self) ==
    LET episode == split_whitespace(self.filename_clean)
        i       == FirstMarker(episode, {"E"})
    IN  IF i # 0 THEN parse_or_1(Drop(episode[i], 1))
        ELSE LET captures == EpisodeCapture(self.filename_clean)
             IN  IF captures.ok THEN parse_or_1(captures.group) ELSE U32(0)

\* ------------------------------------------------------------------------
\* Path::file_name, Path::extension, Episode::extract_extension
\* ------------------------------------------------------------------------

\* A path is one component (no directory separator).  file_name() is None
\* for the empty path and for the components "." and "..".
file_name(path) ==
    IF path \in {<<>>, <<".">>, <<".", ".">>}
    THEN [ok |-> FALSE, val |-> <<>>]
    ELSE [ok |-> TRUE, val |-> path]

LastDot(s) ==
    LET dots == {i \in 1..Len(s) : s[i] = "."}
    IN  IF dots = {} THEN 0 ELSE CHOOSE i \in dots : \A j \in dots : j <= i

\* Path::extension : the part after the last dot; None without a dot, and
\* None when the only dot is the first character.
path_extension(path) ==
    IF ~file_name(path).ok \/ LastDot(path) <= 1
    THEN [ok |-> FALSE, val |-> <<>>]
    ELSE [ok |-> TRUE, val |-> Drop(path, LastDot(path))]

\* extract_extension keeping the placeholder instead of panicking
extract_extension_or_unknown(self) ==
    IF path_extension(self.full_path).ok THEN path_extension(self.full_path)
    ELSE [ok |-> TRUE, val |-> <<"u", "n", "k", "n", "o", "w", "n">>]

\* ok = FALSE is the panic of .extension().unwrap()
extract_extension(self) == path_extension(self.full_path)

\* ------------------------------------------------------------------------
\* Episode::is_movie and the duration probe
\* ------------------------------------------------------------------------

\* An f32 in [2048, 4096) is a multiple of 2^-12: it is held as that multiple.
F32PerSecond == 4096

\* round to nearest, ties to even
RoundDiv(n, d) ==
    LET q == n \div d
        r == n % d
    IN  IF 2 * r > d \/ (2 * r = d /\ q % 2 = 1) THEN q + 1 ELSE q

\* duration.parse::<f32>().unwrap_or(0.0) : the nearest f32 of a decimal
\* "<sec>.<micro>" with 2048 <= sec < 4095; 0.0 for text that is no number.
parse_f32_or_0(duration) ==
    IF duration.kind = "Decimal"
    THEN duration.sec * F32PerSecond
           + RoundDiv(duration.micro * 64, 15625)
    ELSE 0

\* the literal 3000.0
MovieThreshold == 3000 * F32PerSecond

Film == <<"F", "i", "l", "m">>

Movie == <<"M", "o", "v", "i", "e">>

\* is_movie without the season == 0 && episode == 0 rule
is_movie_without_marker_rule(self, metadata) ==
    IF Contains(self.filename, Film) \/ Contains(self.filename, Movie)
    THEN [ok |-> TRUE, val |-> TRUE, probed |-> FALSE]
    ELSE IF ~metadata.ok
    THEN [ok |-> FALSE, val |-> FALSE, probed |-> TRUE]
    ELSE IF /\ metadata.duration.kind # "None"
            /\ parse_f32_or_0(metadata.duration) > MovieThreshold
    THEN [ok |-> TRUE, val |-> TRUE, probed |-> TRUE]
    ELSE [ok |-> TRUE, val |-> FALSE, probed |-> TRUE]

\* is_movie looking for the keywords in filename_clean
is_movie_on_clean_name(self, metadata) ==
    IF \/ Contains(self.filename_clean, Film)
       \/ Contains(self.filename_clean, Movie)
    THEN [ok |-> TRUE, val |-> TRUE, probed |-> FALSE]
    ELSE IF self.season = U32(0) /\ self.episode = U32(0)
    THEN [ok |-> TRUE, val |-> TRUE, probed |-> FALSE]
    ELSE IF ~metadata.ok
    THEN [ok |-> FALSE, val |-> FALSE, probed |-> TRUE]
    ELSE IF /\ metadata.duration.kind # "None"
            /\ parse_f32_or_0(metadata.duration) > MovieThreshold
    THEN [ok |-> TRUE, val |-> TRUE, probed |-> TRUE]
    ELSE [ok |-> TRUE, val |-> FALSE, probed |-> TRUE]

\* ok = FALSE is bail!("Error while parsing file with ffprobe"); probed tells
\* whether ffprobe(&self.full_path) was called.
is_movie(self, metadata) ==
    IF Contains(self.filename, Film) \/ Contains(self.filename, Movie)
    THEN [ok |-> TRUE, val |-> TRUE, probed |-> FALSE]
    ELSE IF self.season = U32(0) /\ self.episode = U32(0)
    THEN [ok |-> TRUE, val |-> TRUE, probed |-> FALSE]
    ELSE IF ~metadata.ok
    THEN [ok |-> FALSE, val |-> FALSE, probed |-> TRUE]
    ELSE IF /\ metadata.duration.kind # "None"
            /\ parse_f32_or_0(metadata.duration) > MovieThreshold
    THEN [ok |-> TRUE, val |-> TRUE, probed |-> TRUE]
    ELSE [ok |-> TRUE, val |-> FALSE, probed |-> TRUE]

\* ------------------------------------------------------------------------
\* Inputs
\* ------------------------------------------------------------------------

\* longest stem, counted in pieces
MaxPieces == 3

\* File names are built from pieces.  Three families of file names are
\* tried, each with the answers of the probe it is tried with.

\* markers: a letter, a space, digits (ASCII and not), season and episode
\* markers, alone and glued, one past u32::MAX and u32::MAX itself
MarkerPieces ==
    { <<"a">>, <<" ">>, <<"7">>, <<"U+0663">>,
      <<"S", "1">>, <<"E", "2">>, <<"S", "1", "E", "2">>,
      <<"S", "4", "2", "9", "4", "9", "6", "7", "2", "9", "6">>,
      <<"E", "4", "2", "9", "4", "9", "6", "7", "2", "9", "5">> }

\* cleaning: separators, a bracket group, a parenthesis group, a denylisted
\* keyword, next to a letter and a season marker
CleaningPieces ==
    { <<"a">>, <<" ">>, <<".">>, <<"S", "1">>, <<"F", "i", "l", "m">>,
      <<"[", "b", "]">>, <<"(", "b", ")">> }

\* classification: names with and without markers and keyword
ProbePieces == { <<"a">>, <<"S", "1">>, <<"E", "2">>, <<"F", "i", "l", "m">> }

\* .ts is a video container the denylist does not name
NoExtension == <<>>

DotTs == <<".", "t", "s">>

RECURSIVE Concat(_)
Concat(ps) == IF ps = <<>> THEN <<>> ELSE ps[1] \o Concat(Drop(ps, 1))

Stems(P) ==
    UNION {{Concat(ps) : ps \in [1..n -> P]} : n \in 0..MaxPieces}

\* ffprobe's answer: an error, or metadata whose format.duration is absent
\* (None), text that is no number, or a decimal number of seconds.
NoDuration == [kind |-> "None", sec |-> 0, micro |-> 0]

BadDuration == [kind |-> "Unparsable", sec |-> 0, micro |-> 0]

Decimal(sec, micro) == [kind |-> "Decimal", sec |-> sec, micro |-> micro]

ProbeErr == [ok |-> FALSE, duration |-> NoDuration]

ProbeOk(d) == [ok |-> TRUE, duration |-> d]

Durations ==
    { NoDuration, BadDuration,
      Decimal(2999, 999900), Decimal(3000, 0), Decimal(3000, 100),
      Decimal(3000, 200), Decimal(3001, 0) }

Probes == {ProbeErr} \cup {ProbeOk(d) : d \in Durations}

LongFile == ProbeOk(Decimal(3001, 0))

Families ==
    { [pieces |-> MarkerPieces, exts |-> {DotTs}, probes |-> {LongFile}],
      [pieces |-> CleaningPieces, exts |-> {NoExtension, DotTs},
       probes |-> {LongFile}],
      [pieces |-> ProbePieces, exts |-> {DotTs}, probes |-> Probes] }

\* ------------------------------------------------------------------------
\* Episode::new / Episode::fetch_infos as a state machine
\* ------------------------------------------------------------------------

VARIABLES
    full_path,    \* the path given to Episode::new
    probe,        \* what ffprobe answers for the file at full_path
    pc,           \* 0 before new; then the index of the next statement of
                  \* fetch_infos
    state,        \* the construction state of section 4.4
    ep,           \* the Episode under construction
    error,        \* the panic that aborted the construction, or "None"
    returned,     \* the Episode values handed back to the caller
    probe_calls,  \* number of calls of ffprobe
    steps         \* the operations completed so far, in order

vars == <<full_path, probe, pc, state, ep, error, returned, probe_calls, steps>>

unknown == <<"u", "n", "k", "n", "o", "w", "n">>

\* the fields before new has filled them
Blank ==
    [full_path |-> <<>>, filename |-> <<>>, filename_clean |-> <<>>,
     extension |-> <<>>, name |-> <<>>, season |-> U32(0),
     episode |-> U32(0), is_movie |-> FALSE]

\* fetch_infos reading the extension before the episode
fetch_infos_extension_first ==
    <<"name", "season", "extension", "episode", "is_movie">>

\* The statements of fetch_infos (lines 45 to 49) in program order.
fetch_infos == <<"name", "season", "episode", "extension", "is_movie">>

Running(stmt) ==
    /\ state \notin {"Uninitialized", "Aborted"}
    /\ pc \in 1..Len(fetch_infos)
    /\ fetch_infos[pc] = stmt

Abort(why) ==
    /\ state' = "Aborted"
    /\ error' = why
    /\ UNCHANGED <<pc, ep, steps>>

Init ==
    /\ \E f \in Families :
          /\ \E st \in Stems(f.pieces), x \in f.exts : full_path = st \o x
          /\ probe \in f.probes
    /\ pc = 0
    /\ state = "Uninitialized"
    /\ ep = Blank
    /\ error = "None"
    /\ returned = <<>>
    /\ probe_calls = 0
    /\ steps = <<>>

\* new, lines 24 to 37: file_name().unwrap(), clean_filename, the struct
\* literal with its placeholders
New ==
    /\ state = "Uninitialized"
    /\ LET filename == file_name(full_path)
       IN  IF filename.ok
           THEN /\ ep' = [full_path      |-> full_path,
                          filename       |-> filename.val,
                          filename_clean |-> clean_filename(filename.val),
                          extension      |-> unknown,
                          name           |-> unknown,
                          season         |-> U32(0),
                          episode        |-> U32(0),
                          is_movie       |-> FALSE]
                /\ state' = "Cleaned"
                /\ pc' = 1
                /\ steps' = Append(steps, "clean")
                /\ error' = error
           ELSE Abort("NoFileName")
    /\ UNCHANGED <<full_path, probe, returned, probe_calls>>

\* self.name = self.extract_series_name().unwrap();
ResolveName ==
    /\ Running("name")
    /\ LET r == extract_series_name(ep)
       IN  IF r.ok
           THEN /\ ep' = [ep EXCEPT !.name = r.val]
                /\ state' = "NameResolved"
                /\ pc' = pc + 1
                /\ steps' = Append(steps, "name")
                /\ error' = error
           ELSE Abort("NameNotFound")
    /\ UNCHANGED <<full_path, probe, returned, probe_calls>>

\* self.season = self.extract_season();
ResolveSeason ==
    /\ Running("season")
    /\ ep' = [ep EXCEPT !.season = extract_season(ep)]
    /\ state' = "SeasonResolved"
    /\ pc' = pc + 1
    /\ steps' = Append(steps, "season")
    /\ UNCHANGED <<full_path, probe, error, returned, probe_calls>>

\* self.episode = self.extract_episode();
ResolveEpisode ==
    /\ Running("episode")
    /\ ep' = [ep EXCEPT !.episode = extract_episode(ep)]
    /\ state' = "EpisodeResolved"
    /\ pc' = pc + 1
    /\ steps' = Append(steps, "episode")
    /\ UNCHANGED <<full_path, probe, error, returned, probe_calls>>

\* self.extension = self.extract_extension();
ResolveExtension ==
    /\ Running("extension")
    /\ LET r == extract_extension(ep)
       IN  IF r.ok
           THEN /\ ep' = [ep EXCEPT !.extension = r.val]
                /\ state' = "ExtensionResolved"
                /\ pc' = pc + 1
                /\ steps' = Append(steps, "extension")
                /\ error' = error
           ELSE Abort("MissingExtension")
    /\ UNCHANGED <<full_path, probe, returned, probe_calls>>

\* self.is_movie = self.is_movie().unwrap();
Classify ==
    /\ Running("is_movie")
    /\ LET r == is_movie(ep, probe)
       IN  /\ probe_calls' = probe_calls + (IF r.probed THEN 1 ELSE 0)
           /\ IF r.ok
              THEN /\ ep' = [ep EXCEPT !.is_movie = r.val]
                   /\ state' = "Classified"
                   /\ pc' = pc + 1
                   /\ steps' = Append(steps, "is_movie")
                   /\ error' = error
              ELSE Abort("ProbeFailure")
    /\ UNCHANGED <<full_path, probe, returned>>

\* new, line 41: ep is handed to the caller once fetch_infos has returned
Return ==
    /\ state # "Aborted"
    /\ pc = Len(fetch_infos) + 1
    /\ returned = <<>>
    /\ returned' = <<ep>>
    /\ UNCHANGED <<full_path, probe, pc, state, ep, error, probe_calls, steps>>

Next ==
    \/ New
    \/ ResolveName
    \/ ResolveSeason
    \/ ResolveEpisode
    \/ ResolveExtension
    \/ Classify
    \/ Return

Spec == Init /\ [][Next]_vars

\* ------------------------------------------------------------------------
\* Properties
\* ------------------------------------------------------------------------

\* the operations of a construction, in the order section 4.4 gives them
Order == <<"clean", "name", "season", "episode", "extension", "is_movie">>

StateAfter ==
    <<"Cleaned", "NameResolved", "SeasonResolved", "EpisodeResolved",
      "ExtensionResolved", "Classified">>

Done(step) == \E i \in 1..Len(steps) : steps[i] = step

HasKeyword(s) == Contains(s, Film) \/ Contains(s, Movie)

IsPrefix(a, b) == Len(a) <= Len(b) /\ \A i \in 1..Len(a) : a[i] = b[i]

\* C1: once season and episode are both resolved to 0, the probe is never
\* called, the construction does not fail on the probe, and the Episode is
\* classified, and returned, as a movie whatever the probe would answer.
C1_NoMarkersIsMovie ==
    (/\ Done("season") /\ Done("episode")
     /\ ep.season = U32(0) /\ ep.episode = U32(0))
    => /\ probe_calls = 0
       /\ error # "ProbeFailure"
       /\ (Done("is_movie") => ep.is_movie)
       /\ \A i \in 1..Len(returned) : returned[i].is_movie

C1_Witness ==
    /\ returned # <<>>
    /\ returned[1].season = U32(0) /\ returned[1].episode = U32(0)
    /\ returned[1].is_movie
    /\ ~HasKeyword(full_path)
    /\ ~probe.ok
    /\ probe_calls = 0

\* C2: a raw file name containing Film or Movie never reaches the probe and
\* is classified as a movie for every season and episode, so a failing probe
\* cannot abort its construction.
C2_KeywordIsMovie ==
    (state # "Uninitialized" /\ HasKeyword(ep.filename))
    => /\ probe_calls = 0
       /\ error # "ProbeFailure"
       /\ (Done("is_movie") => ep.is_movie)
       /\ \A i \in 1..Len(returned) : returned[i].is_movie

C2_Witness ==
    /\ returned # <<>>
    /\ HasKeyword(returned[1].filename)
    /\ returned[1].season # U32(0) /\ returned[1].episode # U32(0)
    /\ returned[1].is_movie
    /\ ~probe.ok
    /\ probe_calls = 0

\* C3: construction is all-or-nothing: an aborted construction returns no
\* Episode, and a returned Episode is the Classified one, built without a
\* failed name extraction, missing extension or failed probe, with each
\* field written by its own extraction step.
C3_AllOrNothing ==
    /\ state = "Aborted" => returned = <<>>
    /\ returned # <<>> =>
          LET name      == extract_series_name(
                               [filename_clean |-> ep.filename_clean])
              extension == path_extension(full_path)
          IN  /\ returned = <<ep>>
              /\ state = "Classified"
              /\ error = "None"
              /\ \A i \in 2..Len(Order) : Done(Order[i])
              /\ name.ok /\ ep.name = name.val
              /\ extension.ok /\ ep.extension = extension.val
              /\ (probe_calls > 0 => probe.ok)

C3_Witness ==
    /\ state = "Aborted"
    /\ error = "MissingExtension"
    /\ Done("name") /\ Done("season") /\ Done("episode")
    /\ ep.extension = unknown
    /\ returned = <<>>

\* C4: the operations complete in the order clean, name, season, episode,
\* extension, classification, each on top of the previous one; the probe is
\* called at most once, only by the classification, and never in a
\* construction that name or extension extraction aborted.
C4_FixedOrder ==
    /\ IsPrefix(steps, Order)
    /\ state # "Aborted" =>
          state = (IF steps = <<>> THEN "Uninitialized"
                   ELSE StateAfter[Len(steps)])
    /\ probe_calls <= 1
    /\ probe_calls = 1 =>
          /\ Len(steps) >= 5
          /\ error \in {"None", "ProbeFailure"}
    /\ error \in {"NoFileName", "NameNotFound", "MissingExtension"} =>
          probe_calls = 0

C4_Witness ==
    /\ probe_calls = 1
    /\ state = "Classified"
    /\ steps = Order
    /\ returned # <<>>

\* the reported duration is a number strictly greater than 3000 seconds
LongerThan3000(d) ==
    d.kind = "Decimal" /\ (d.sec > 3000 \/ (d.sec = 3000 /\ d.micro > 0))

\* C5: when the classification has called the probe and the probe answered,
\* is_movie holds exactly when the reported duration is strictly greater
\* than 3000 seconds (an absent or unparsable duration counts as 0).
C5_StrictThreshold ==
    (Done("is_movie") /\ probe_calls = 1)
    => (ep.is_movie <=> LongerThan3000(probe.duration))

\* C6: the cleaned file name has no leading or trailing whitespace and no
\* two consecutive whitespace characters.
C6_WhitespaceCollapsed ==
    Done("clean") =>
        LET c == ep.filename_clean
        IN  /\ c # <<>> => ~is_whitespace(c[1]) /\ ~is_whitespace(c[Len(c)])
            /\ \A i \in 1..(Len(c) - 1) :
                  ~(is_whitespace(c[i]) /\ is_whitespace(c[i + 1]))

\* the tokens of the cleaned file name
Tokens == split_whitespace(ep.filename_clean)

\* the letter followed by one or more decimal digits and nothing else
IsLetterDigits(tok, letter) ==
    /\ Len(tok) >= 2
    /\ tok[1] = letter
    /\ \A k \in 2..Len(tok) : tok[k] \in AsciiDigits \cup OtherDigits

FirstToken(letter) ==
    Min({i \in 1..Len(Tokens) : IsLetterDigits(Tokens[i], letter)})

\* a token S<digits> comes before a token E<digits>
SeasonThenEpisode ==
    \E i, j \in 1..Len(Tokens) :
        /\ i < j
        /\ IsLetterDigits(Tokens[i], "S")
        /\ IsLetterDigits(Tokens[j], "E")

\* the digits of the first S<digits> token, and of the first E<digits> one
SeasonDigits == Drop(Tokens[FirstToken("S")], 1)

EpisodeDigits == Drop(Tokens[FirstToken("E")], 1)

RECURSIVE StripZeros(_)
StripZeros(ds) ==
    IF ds # <<>> /\ ds[1] = "0" THEN StripZeros(Drop(ds, 1)) ELSE ds

\* the decimal numeral a digit run denotes, without leading zeros
AsciiOf(c) == IF c = "U+0663" THEN "3" ELSE c

Numeral(ds) == StripZeros([i \in 1..Len(ds) |-> AsciiOf(ds[i])])

DigitChars == <<"0", "1", "2", "3", "4", "5", "6", "7", "8", "9">>

\* the decimal numeral of a u32 (empty for 0), by long division by ten
RECURSIVE ToNumeral(_)
ToNumeral(v) ==
    IF v = <<0, 0>> THEN <<>>
    ELSE LET t == (v[1] % 10) * Limb + v[2]
         IN  ToNumeral(<<v[1] \div 10, t \div 10>>) \o <<DigitChars[(t % 10) + 1]>>

U32MaxNumeral == <<"4", "2", "9", "4", "9", "6", "7", "2", "9", "5">>

\* numeral order on numerals of the same length
RECURSIVE LexLeq(_, _)
LexLeq(a, b) ==
    IF a = <<>> THEN TRUE
    ELSE IF a[1] # b[1] THEN DigitValue(a[1]) < DigitValue(b[1])
    ELSE LexLeq(Drop(a, 1), Drop(b, 1))

\* the digit run is ASCII and denotes a value of at most u32::MAX
FitsU32(ds) ==
    /\ \A k \in 1..Len(ds) : ds[k] \in AsciiDigits
    /\ \/ Len(StripZeros(ds)) < Len(U32MaxNumeral)
       \/ /\ Len(StripZeros(ds)) = Len(U32MaxNumeral)
          /\ LexLeq(StripZeros(ds), U32MaxNumeral)

\* C7 as stated: when a token S<digits> is followed later by a token
\* E<digits>, then once season and episode are extracted season is the integer the S digits denote and episode the
\* integer the E digits denote, for digit runs of every length.
C7_MarkerValues ==
    (state = "EpisodeResolved" /\ SeasonThenEpisode)
    => /\ ToNumeral(ep.season) = Numeral(SeasonDigits)
       /\ ToNumeral(ep.episode) = Numeral(EpisodeDigits)

\* C7 amended: when a token S<digits> is followed later by a token
\* E<digits>, then once both are extracted season (episode) is the integer the digits of the first S (E)
\* token denote if they are ASCII digits denoting at most 4294967295, and 1
\* otherwise.
C7_MarkerValuesWithinU32 ==
    (state = "EpisodeResolved" /\ SeasonThenEpisode)
    => /\ IF FitsU32(SeasonDigits)
          THEN ToNumeral(ep.season) = Numeral(SeasonDigits)
          ELSE ep.season = U32(1)
       /\ IF FitsU32(EpisodeDigits)
          THEN ToNumeral(ep.episode) = Numeral(EpisodeDigits)
          ELSE ep.episode = U32(1)

C7_Witness ==
    /\ state = "EpisodeResolved" /\ SeasonThenEpisode
    /\ ~FitsU32(SeasonDigits)
    /\ ep.season = U32(1)
    /\ EpisodeDigits = U32MaxNumeral
    /\ ep.episode = <<65535, 65535>>

IsBoundary(tok) == IsLetterDigits(tok, "S") \/ IsLetterDigits(tok, "E")

Boundaries == {i \in 1..Len(Tokens) : IsBoundary(Tokens[i])}

\* C8: when some token is S or E followed by digits only, the name just
\* extracted is the
\* tokens before the first such token joined by single spaces, whatever
\* markers follow; the regex fallback answers only when there is none.
C8_FirstMarkerBoundary ==
    state = "NameResolved" =>
       /\ Boundaries # {} =>
             ep.name = Join(SubSeq(Tokens, 1, Min(Boundaries) - 1))
       /\ (extract_series_name([filename_clean |-> ep.filename_clean]).tier = 2)
             <=> (Boundaries = {})

C8_Witness ==
    /\ state = "NameResolved"
    /\ Cardinality(Boundaries) >= 2
    /\ IsLetterDigits(Tokens[Min(Boundaries)], "E")
    /\ ep.name = Join(SubSeq(Tokens, 1, Min(Boundaries) - 1))

\* C9: name extraction succeeds on every non-empty cleaned file name; a
\* construction aborts with name-not-found only when the cleaned name is
\* empty.
C9_NameNotFoundOnlyWhenEmpty ==
    /\ (state = "Cleaned" /\ ep.filename_clean # <<>>) =>
          extract_series_name([filename_clean |-> ep.filename_clean]).ok
    /\ (Done("clean") /\ ep.filename_clean # <<>>) => error # "NameNotFound"
    /\ error = "NameNotFound" => (Done("clean") /\ ep.filename_clean = <<>>)

C9_Witness ==
    /\ state = "NameResolved"
    /\ ep.filename_clean # <<>>
    /\ Boundaries = {}
    /\ \A k \in 1..(NumNamePatterns - 1) : ~NamePattern(ep.filename_clean, k).ok
    /\ ep.name = ep.filename_clean

\* what tier 2 of the episode extraction yields if its alternatives are
\* tried one after the other over the whole string
EpisodeByPriority(s) ==
    LET sxxeyy == {p \in 1..Len(s) : SxxEyyAt(s, p)}
        exx    == {p \in 1..Len(s) : ExxAt(s, p)}
        number == {p \in 1..Len(s) : NumberAt(s, p)}
    IN  IF sxxeyy # {} THEN parse_or_1(EpisodeGroupAt(s, Min(sxxeyy)))
        ELSE IF exx # {} THEN parse_or_1(EpisodeGroupAt(s, Min(exx)))
        ELSE IF number # {} THEN parse_or_1(EpisodeGroupAt(s, Min(number)))
        ELSE U32(0)

\* C10: when no token is E<digits>, the episode is the E digits of an
\* SxxEyy group if the cleaned name holds one anywhere, else those of a bare
\* Exx, else a standalone 1-3 digit number, else 0; an earlier standalone
\* number does not override SxxEyy.
C10_EpisodePriority ==
    (state = "EpisodeResolved" /\ \A i \in 1..Len(Tokens) : ~IsLetterDigits(Tokens[i], "E"))
    => ep.episode = EpisodeByPriority(ep.filename_clean)

====
